---- MODULE Spec2Model ----
(***************************************************************************)
(* The drawing / range-constraint / topology-check demo of the repository, *)
(* src/unnamed/part_004.  That file holds two copies of the program:       *)
(*   "basic"     lines 1-713    (extent test on map coordinates, range     *)
(*                               form with a min<max check only, the long  *)
(*                               pairwise scan with gap / dangling checks) *)
(*   "annotated" lines 715-1772 (per-vertex lon/lat test, full range       *)
(*                               validation, range layer, shorter scan).   *)
(* The variable `variant` says which copy runs; it never changes.          *)
(*                                                                         *)
(* Units.  Map (projected) coordinates are integers.  Lon/lat values are   *)
(* integers counting 1e-6 degree; near the equator one such unit is        *)
(* 11.13 cm, so a squared distance in units is 124 cm^2 and a shoelace     *)
(* double-area d is 62*d cm^2.                                             *)
(***************************************************************************)
EXTENDS Integers, Sequences, FiniteSets, TLC

VARIABLES
    variant,          \* which copy of the program runs
    drawSource,       \* features of drawSource, in insertion order
    highlightSource,  \* features of highlightSource (clones of error features)
    rangeExtent,      \* Null or [ext |-> <<minX, minY, maxX, maxY>>] of Num
    rangeLayer,       \* features of rangeLayer's source (annotated copy)
    drawInteraction,  \* the drawInteraction variable: Null or an interaction
    mapInteractions,  \* Draw interactions installed on the map
    drawingMode,      \* the drawingMode variable
    dialogVisible,    \* app.dialogVisible
    last,             \* the feedback the last handler gave to the user
    shards,           \* a pair scan taken pair by pair: the errors found for
                      \* each pair done so far
    track,            \* the track-animation demo (demo-for-track/main.js)
    drag,             \* the drag-and-drop demo (demo-for-drag/main.js)
    flash             \* the flashing-points demo (README of langchain_rag_qwen_bge)

\* The three other demos of the repository are pages of their own; while the
\* drawing demo runs they are not loaded, and the other way round.
demos == <<track, drag, flash>>
vars == <<variant, drawSource, highlightSource, rangeExtent, rangeLayer,
          drawInteraction, mapInteractions, drawingMode, dialogVisible, last,
          shards, track, drag, flash>>

\* ------------------------------------------------------------------ bounds
\* features in drawSource under Spec, and under SpecTopology
MaxFeatures == 2
MaxChecked == 3
\* features in drawSource under SpecPairs
MaxPair == 2
\* features in drawSource under SpecSharded
MaxSharded == 3
\* features in drawSource under SpecNotes
MaxNotes == 3
\* files dropped on the map under SpecDrag
MaxDropped == 3
\* seconds on the clock and features added under SpecFlash
MaxSeconds == 4
MaxFlashes == 2

\* --------------------------------------------------------------- constants
\* 0.000001 degree, the closure / duplicate-vertex tolerance
CoordEpsilon == 1
\* 0.1 m, in cm: two points nearer than this coincide
PointCoincideCm == 10
\* 0.1 m, in cm: a line shorter than this is too short
MinLengthCm == 10
\* 0.0001 m^2, in cm^2: polygon and intersection area threshold
MinAreaCm2 == 1
\* 1.0 m, in cm: the dangling-endpoint threshold (basic copy)
DanglingCm == 100
\* 0.001 degree: the smallest span of a range extent
MinSpan == 1000
\* 180 and 90 degrees
MaxLon == 180000000
MaxLat == 90000000

\* null / undefined
Null == [null |-> TRUE]
\* drawingMode = null
NoMode == "null"

\* ----------------------------------------------------------------- numbers
\* A JavaScript number as the range form produces it: NaN or a finite value.
NaN == [nan |-> TRUE, v |-> 0]
Num(n) == [nan |-> FALSE, v |-> n]
IsNaN(a) == a.nan
\* Every comparison with NaN is false.
Lt(a, b) == ~a.nan /\ ~b.nan /\ a.v < b.v
Gt(a, b) == Lt(b, a)
Ge(a, b) == ~a.nan /\ ~b.nan /\ a.v >= b.v
Le(a, b) == Ge(b, a)
Sub(a, b) == IF a.nan \/ b.nan THEN NaN ELSE Num(a.v - b.v)

Abs(n) == IF n < 0 THEN -n ELSE n
Min(a, b) == IF a < b THEN a ELSE b
Max(a, b) == IF a > b THEN a ELSE b

\* ------------------------------------------------------------ range form
\* A field of rangeForm is a string: '' | ' ' | 'abc' | a decimal number.
Field(t, n) == [txt |-> t, v |-> n]
FNum(n) == Field("num", n)
FEmpty == Field("empty", 0)
FBlank == Field("blank", 0)
FJunk == Field("junk", 0)

\* parseFloat(string)
parseFloat(f) == IF f.txt = "num" THEN Num(f.v) ELSE NaN
\* isNaN(string) = isNaN(Number(string)); Number('') = Number(' ') = 0
isNaNString(f) == f.txt = "junk"
\* !value for a string
Falsy(f) == f.txt = "empty"

\* rules: { required: true } (both copies)
RequiredOk(f) == ~Falsy(f)
\* the validator of the annotated copy, limit = 180 or 90
ValidatorOk(f, limit) ==
    IF Falsy(f) THEN FALSE
    ELSE IF isNaNString(f) THEN FALSE
    ELSE IF Lt(parseFloat(f), Num(-limit)) \/ Gt(parseFloat(f), Num(limit)) THEN FALSE
    ELSE TRUE

\* this.$refs.rangeForm.validate(valid => ...)
FormValid(form) ==
    IF variant = "basic"
    THEN \A k \in 1..4 : RequiredOk(form[k])
    ELSE /\ \A k \in 1..4 : RequiredOk(form[k])
         /\ ValidatorOk(form[1], MaxLon) /\ ValidatorOk(form[3], MaxLon)
         /\ ValidatorOk(form[2], MaxLat) /\ ValidatorOk(form[4], MaxLat)

\* What confirmRange's checks answer for the parsed values: "ok" or the error.
RangeCheckBasic(minX, minY, maxX, maxY) ==
    IF Ge(minX, maxX) \/ Ge(minY, maxY) THEN "minNotBelowMax" ELSE "ok"

RangeCheckAnnotated(minX, minY, maxX, maxY) ==
    IF IsNaN(minX) \/ IsNaN(minY) \/ IsNaN(maxX) \/ IsNaN(maxY) THEN "notANumber"
    ELSE IF Lt(minX, Num(-MaxLon)) \/ Gt(minX, Num(MaxLon))
            \/ Lt(maxX, Num(-MaxLon)) \/ Gt(maxX, Num(MaxLon)) THEN "lonDomain"
    ELSE IF Lt(minY, Num(-MaxLat)) \/ Gt(minY, Num(MaxLat))
            \/ Lt(maxY, Num(-MaxLat)) \/ Gt(maxY, Num(MaxLat)) THEN "latDomain"
    ELSE IF Ge(minX, maxX) \/ Ge(minY, maxY) THEN "minNotBelowMax"
    ELSE IF Lt(Sub(maxX, minX), Num(MinSpan)) \/ Lt(Sub(maxY, minY), Num(MinSpan))
         THEN "spanTooSmall"
    ELSE "ok"

RangeCheck(minX, minY, maxX, maxY) ==
    IF variant = "basic" THEN RangeCheckBasic(minX, minY, maxX, maxY)
    ELSE RangeCheckAnnotated(minX, minY, maxX, maxY)

\* ------------------------------------------------------------- projection
\* toLonLat: map coordinate -> lon/lat.  One map unit is 3e-6 degree.
toLonLat(c) == <<3 * c[1], 3 * c[2]>>
\* fromLonLat: lon/lat -> map coordinate (to the map grid)
fromLonLat(d) == <<d[1] \div 3, d[2] \div 3>>

\* --------------------------------------------------------------- geometry
\* A feature is its geometry: [kind, coords]; a Polygon's coords are its
\* single (outer) ring, a Point's coords hold its one coordinate.
Geom(k, cs) == [kind |-> k, coords |-> cs]

\* geometry.getExtent(), in map coordinates
SeqMin(s, k) == CHOOSE m \in {s[i][k] : i \in 1..Len(s)} : \A i \in 1..Len(s) : m <= s[i][k]
SeqMax(s, k) == CHOOSE m \in {s[i][k] : i \in 1..Len(s)} : \A i \in 1..Len(s) : m >= s[i][k]
getExtent(g) == <<SeqMin(g.coords, 1), SeqMin(g.coords, 2),
                  SeqMax(g.coords, 1), SeqMax(g.coords, 2)>>

\* ol.extent.containsExtent(extent1, extent2)
containsExtent(e1, e2) ==
    /\ Le(e1[1], Num(e2[1])) /\ Le(Num(e2[3]), e1[3])
    /\ Le(e1[2], Num(e2[2])) /\ Le(Num(e2[4]), e1[4])

\* (mutant) the bounds are taken as exclusive
VertexOutsideExclusive(lonLat, ext) ==
    \/ Le(Num(lonLat[1]), ext[1]) \/ Ge(Num(lonLat[1]), ext[3])
    \/ Le(Num(lonLat[2]), ext[2]) \/ Ge(Num(lonLat[2]), ext[4])
\* the vertex test of the annotated drawend handler: TRUE when lonLat is outside
VertexOutside(lonLat, ext) ==
    \/ Lt(Num(lonLat[1]), ext[1]) \/ Gt(Num(lonLat[1]), ext[3])
    \/ Lt(Num(lonLat[2]), ext[2]) \/ Gt(Num(lonLat[2]), ext[4])

\* isWithinRange of the annotated drawend handler
isWithinRange(g, ext) ==
    \A i \in 1..Len(g.coords) : ~VertexOutside(toLonLat(g.coords[i]), ext)

\* The admission test of the drawend handler, rangeExtent being installed.
Admitted(g, ext) ==
    IF variant = "basic" THEN containsExtent(ext, getExtent(g))
    ELSE isWithinRange(g, ext)

\* ------------------------------------------------------- turf conversion
\* turf.point / turf.lineString / turf.polygon throw on malformed input:
\* a line needs 2 positions, a ring 4 positions with first = last.
turfThrows(g) ==
    CASE g.kind = "Point" -> FALSE
      [] g.kind = "LineString" -> Len(g.coords) < 2
      [] g.kind = "Polygon" ->
            \/ Len(g.coords) < 4
            \/ toLonLat(g.coords[1]) # toLonLat(g.coords[Len(g.coords)])

\* One element of turfFeatures: the lon/lat coordinates and properties.type
TurfFeature(g) ==
    [type |-> g.kind, coords |-> [i \in 1..Len(g.coords) |-> toLonLat(g.coords[i])]]

\* ------------------------------------------------------- turf predicates
\* Squared distance in cm^2 (1 unit^2 = 124 cm^2), and "distance < t cm".
\* The guard keeps the products small: a coordinate difference above t units
\* is already farther than t cm.
DistSqCm(a, b) == ((a[1] - b[1]) * (a[1] - b[1]) + (a[2] - b[2]) * (a[2] - b[2])) * 124
DistanceBelow(a, b, t) ==
    /\ Abs(a[1] - b[1]) <= t /\ Abs(a[2] - b[2]) <= t
    /\ DistSqCm(a, b) < t * t
\* turf.distance in whole cm, for a distance known to be below t cm
DistanceCm(a, b, t) == CHOOSE r \in 0..t : r * r <= DistSqCm(a, b) /\ DistSqCm(a, b) < (r + 1) * (r + 1)

\* turf.length(line) < t cm
RECURSIVE LengthCmUpTo(_, _, _)
LengthCmUpTo(cs, k, t) ==
    IF k >= Len(cs) THEN 0
    ELSE IF ~DistanceBelow(cs[k], cs[k + 1], t) THEN t
    ELSE Min(t, DistanceCm(cs[k], cs[k + 1], t) + LengthCmUpTo(cs, k + 1, t))
LengthBelow(cs, t) == LengthCmUpTo(cs, 1, t) < t

\* turf.area(polygon) in cm^2: the shoelace sum over the ring
RECURSIVE Shoelace(_, _)
Shoelace(cs, k) ==
    IF k >= Len(cs) THEN 0
    ELSE (cs[k][1] - cs[1][1]) * (cs[k + 1][2] - cs[1][2])
         - (cs[k + 1][1] - cs[1][1]) * (cs[k][2] - cs[1][2]) + Shoelace(cs, k + 1)
AreaCm2(cs) == Abs(Shoelace(cs, 1)) * 62

\* Two segments a-b and c-d meet in one point that is interior to both.
SegmentsCross(a, b, c, d) ==
    LET denom == (d[2] - c[2]) * (b[1] - a[1]) - (d[1] - c[1]) * (b[2] - a[2])
        numeA == (d[1] - c[1]) * (a[2] - c[2]) - (d[2] - c[2]) * (a[1] - c[1])
        numeB == (b[1] - a[1]) * (a[2] - c[2]) - (b[2] - a[2]) * (a[1] - c[1])
        Inside(n) == IF denom > 0 THEN 0 < n /\ n < denom ELSE denom < n /\ n < 0
    IN  denom # 0 /\ Inside(numeA) /\ Inside(numeB)

\* turf.booleanValid(polygon): consecutive vertices differ and no two edges cross
booleanValid(cs) ==
    /\ Len(cs) >= 4
    /\ cs[1] = cs[Len(cs)]
    /\ \A i \in 1..(Len(cs) - 1) : cs[i] # cs[i + 1]
    /\ \A i, j \in 1..(Len(cs) - 1) :
          i < j => ~SegmentsCross(cs[i], cs[i + 1], cs[j], cs[j + 1])

\* turf.booleanCrosses(line, line)
LinesCross(c1, c2) ==
    \E i \in 1..(Len(c1) - 1), j \in 1..(Len(c2) - 1) :
        SegmentsCross(c1[i], c1[i + 1], c2[j], c2[j + 1])

\* Two segments are collinear and share more than a point.
SegmentsShare(a, b, c, d) ==
    LET cross(o, p, q) == (p[1] - o[1]) * (q[2] - o[2]) - (p[2] - o[2]) * (q[1] - o[1])
        k == IF a[1] # b[1] THEN 1 ELSE 2
        lo1 == Min(a[k], b[k])  hi1 == Max(a[k], b[k])
        lo2 == Min(c[k], d[k])  hi2 == Max(c[k], d[k])
    IN  /\ a # b /\ c # d
        /\ cross(a, b, c) = 0 /\ cross(a, b, d) = 0
        /\ Max(lo1, lo2) < Min(hi1, hi2)

\* Polygons are compared through their bounding rectangles <<x1, y1, x2, y2>>:
\* every polygon that passes the conversion in this model is an axis-parallel
\* rectangle.
BBox(cs) == <<SeqMin(cs, 1), SeqMin(cs, 2), SeqMax(cs, 1), SeqMax(cs, 2)>>
RectIntersects(a, b) ==
    a[1] <= b[3] /\ b[1] <= a[3] /\ a[2] <= b[4] /\ b[2] <= a[4]
RectContains(a, b) ==
    a[1] <= b[1] /\ b[3] <= a[3] /\ a[2] <= b[2] /\ b[4] <= a[4]
\* turf.area(turf.intersect(p1, p2)) in cm^2
IntersectionAreaCm2(a, b) ==
    Max(0, Min(a[3], b[3]) - Max(a[1], b[1]))
    * Max(0, Min(a[4], b[4]) - Max(a[2], b[2])) * 124

\* turf.booleanOverlap(f1, f2): throws unless both are lines or both polygons;
\* TRUE when the two share part of their extent of the same dimension and
\* neither covers the other.
booleanOverlapThrows(f1, f2) == f1.type # f2.type \/ f1.type = "Point"
booleanOverlap(f1, f2) ==
    IF f1.type = "LineString"
    THEN /\ f1.coords # f2.coords
         /\ \E i \in 1..(Len(f1.coords) - 1), j \in 1..(Len(f2.coords) - 1) :
               SegmentsShare(f1.coords[i], f1.coords[i + 1], f2.coords[j], f2.coords[j + 1])
    ELSE /\ IntersectionAreaCm2(BBox(f1.coords), BBox(f2.coords)) > 0
         /\ ~RectContains(BBox(f1.coords), BBox(f2.coords))
         /\ ~RectContains(BBox(f2.coords), BBox(f1.coords))

\* turf.booleanIntersects / turf.booleanContains for two polygons
booleanIntersects(f1, f2) == RectIntersects(BBox(f1.coords), BBox(f2.coords))
booleanContains(f1, f2) == RectContains(BBox(f1.coords), BBox(f2.coords))

\* ------------------------------------------------------------ checkTopology
\* One element of `errors`.  cat: what is reported; ids: the 1-based ordinals
\* the message names, in the order it names them; sev: "error", or "info" for
\* the findings the code marks as "not an error"; payload: the number in the
\* message (cm, cm^2, per-mille or a count; 0 when there is none); adds: the
\* ordinals this finding puts into errorFeatureIndices.
Entry(c, is, s, p, a) == [cat |-> c, ids |-> is, sev |-> s, payload |-> p, adds |-> a]
SelfError(c, i) == Entry(c, <<i>>, "error", 0, <<i>>)
\* (mutant) only the first feature of the pair is put into errorFeatureIndices
PairErrorAddsFirst(c, i, j, p) == Entry(c, <<i, j>>, "error", p, <<i>>)
PairError(c, i, j, p) == Entry(c, <<i, j>>, "error", p, <<i, j>>)
PairInfo(c, i, j, p) == Entry(c, <<i, j>>, "info", p, <<>>)

When(cond, e) == IF cond THEN <<e>> ELSE <<>>

\* Left fold of f over the indices lo..hi, concatenating the sequences f yields.
RECURSIVE ConcatOver(_, _, _)
ConcatOver(f(_), lo, hi) ==
    IF lo > hi THEN <<>> ELSE f(lo) \o ConcatOver(f, lo + 1, hi)

\* The Polygon branch of the per-feature pass (inside its try block).
PolygonSelfCheck(tf, i) ==
    LET cs == tf.coords
        invalid == When(~booleanValid(cs), SelfError("selfIntersect", i))
        few == When(Len(cs) < 3, SelfError("tooFewPoints", i))
    IN  IF Len(cs) = 0
        THEN \* coords[0] is undefined: firstPoint[0] throws, the catch reports
             invalid \o few \o <<SelfError("polygonInvalid", i)>>
        ELSE invalid \o few
             \o When(\/ Abs(cs[1][1] - cs[Len(cs)][1]) > CoordEpsilon
                     \/ Abs(cs[1][2] - cs[Len(cs)][2]) > CoordEpsilon,
                     SelfError("unclosed", i))
             \o When(AreaCm2(cs) < MinAreaCm2, SelfError("areaTooSmall", i))

\* The duplicate-vertex loops of the LineString branch: the break leaves the
\* inner loop only, so each i with a later duplicate gives one entry.
HasLaterDuplicate(cs, i) ==
    \E j \in (i + 1)..Len(cs) :
        /\ Abs(cs[i][1] - cs[j][1]) < CoordEpsilon
        /\ Abs(cs[i][2] - cs[j][2]) < CoordEpsilon
LineDuplicates(cs, n) ==
    LET one(i) == When(HasLaterDuplicate(cs, i), SelfError("duplicatePoint", n))
    IN  ConcatOver(one, 1, Len(cs) - 1)

\* The LineString branch of the per-feature pass.
LineSelfCheck(tf, i) ==
    When(Len(tf.coords) < 2, SelfError("lineTooFewPoints", i))
    \o When(LengthBelow(tf.coords, MinLengthCm), SelfError("lineTooShort", i))
    \o LineDuplicates(tf.coords, i)

\* The Point branch: the inner forEach over all other features.
PointSelfCheck(tfs, i) ==
    LET one(o) ==
            When(/\ o # i /\ tfs[o].type = "Point"
                 /\ DistanceBelow(tfs[i].coords[1], tfs[o].coords[1], PointCoincideCm),
                 Entry("pointsTooClose", <<i, o>>, "error",
                       DistanceCm(tfs[i].coords[1], tfs[o].coords[1], PointCoincideCm),
                       <<i>>))
    IN  ConcatOver(one, 1, Len(tfs))

\* The per-feature pass: turfFeatures.forEach((feature, index) => ...)
SelfCheck(tfs, i) ==
    CASE tfs[i].type = "Polygon" -> PolygonSelfCheck(tfs[i], i)
      [] tfs[i].type = "LineString" -> LineSelfCheck(tfs[i], i)
      [] tfs[i].type = "Point" -> PointSelfCheck(tfs, i)
SelfPass(tfs) ==
    LET one(i) == SelfCheck(tfs, i)
    IN  ConcatOver(one, 1, Len(tfs))

\* Helpers of the pairwise scan of the basic copy.
\* Two segments meet in one point (turf.lineIntersect on two segments).
SegmentsMeet(a, b, c, d) ==
    LET denom == (d[2] - c[2]) * (b[1] - a[1]) - (d[1] - c[1]) * (b[2] - a[2])
        numeA == (d[1] - c[1]) * (a[2] - c[2]) - (d[2] - c[2]) * (a[1] - c[1])
        numeB == (b[1] - a[1]) * (a[2] - c[2]) - (b[2] - a[2]) * (a[1] - c[1])
        Within(n) == IF denom > 0 THEN 0 <= n /\ n <= denom ELSE denom <= n /\ n <= 0
    IN  denom # 0 /\ Within(numeA) /\ Within(numeB)

\* turf.lineIntersect(line, polygon).features.length: the places where a
\* segment of the line meets an edge of the ring
LineIntersectCount(lc, pc) ==
    Cardinality({ij \in (1..(Len(lc) - 1)) \X (1..(Len(pc) - 1)) :
                    SegmentsMeet(lc[ij[1]], lc[ij[1] + 1], pc[ij[2]], pc[ij[2] + 1])})

StrictlyInside(c, r) == r[1] < c[1] /\ c[1] < r[3] /\ r[2] < c[2] /\ c[2] < r[4]
InsideOrOn(c, r) == r[1] <= c[1] /\ c[1] <= r[3] /\ r[2] <= c[2] /\ c[2] <= r[4]
\* turf.booleanCrosses(line, polygon): part of the line is inside the
\* polygon and part of it is outside
LineCrossesPolygon(lc, pc) ==
    LET r == BBox(pc)
        entersInterior ==
            \/ \E i \in 1..Len(lc) : StrictlyInside(lc[i], r)
            \/ \E i \in 1..(Len(lc) - 1) :
                  \/ SegmentsCross(lc[i], lc[i + 1], <<r[1], r[2]>>, <<r[3], r[4]>>)
                  \/ SegmentsCross(lc[i], lc[i + 1], <<r[1], r[4]>>, <<r[3], r[2]>>)
    IN  entersInterior /\ \E i \in 1..Len(lc) : ~InsideOrOn(lc[i], r)
\* turf.booleanContains(polygon, line)
PolygonContainsLine(pc, lc) ==
    LET r == BBox(pc)
    IN  /\ \A i \in 1..Len(lc) : InsideOrOn(lc[i], r)
        /\ \E i \in 1..Len(lc) : StrictlyInside(lc[i], r)

\* The line-with-polygon checks of the basic copy; li, pi are the ordinals of
\* the line and of the polygon.
LinePolygonChecks(lf, pf, li, pi, crossFirst) ==
    When(LineCrossesPolygon(lf.coords, pf.coords),
         Entry("lineCrossesPolygon", <<li, pi>>, "error", 0, crossFirst))
    \o When(PolygonContainsLine(pf.coords, lf.coords),
            PairInfo("lineInsidePolygon", li, pi, 0))
    \o When(LineIntersectCount(lf.coords, pf.coords) > 0,
            Entry("lineMeetsBoundary", <<li, pi>>, "error",
                  LineIntersectCount(lf.coords, pf.coords), crossFirst))

\* The dangling-endpoint check of the basic copy for two lines.
DanglingCheck(f1, f2, i, j) ==
    LET ends(f) == <<f.coords[1], f.coords[Len(f.coords)]>>
        pairs == {<<a, b>> : a \in 1..2, b \in 1..2}
        near(p, t) == DistanceBelow(ends(f1)[p[1]], ends(f2)[p[2]], t)
        connections == Cardinality({p \in pairs : near(p, PointCoincideCm)})
        closest == CHOOSE d \in 0..DanglingCm :
                      /\ \E p \in pairs : near(p, DanglingCm)
                            /\ d = DistanceCm(ends(f1)[p[1]], ends(f2)[p[2]], DanglingCm)
                      /\ \A p \in pairs : near(p, DanglingCm) =>
                            d <= DistanceCm(ends(f1)[p[1]], ends(f2)[p[2]], DanglingCm)
    IN  IF connections = 0
        THEN IF \E p \in pairs : near(p, DanglingCm)
             THEN <<PairError("danglingEndpoint", i, j, closest)>>
             ELSE <<>>
        ELSE When(connections = 1, PairError("singleEndpointConnection", i, j, 0))

\* (area2 / area1 * 100).toFixed(1), in per-mille, from the two shoelace sums
\* (the ratio of two areas needs no unit); -1 when the divisor is 0
PerMille(part, whole) == IF whole = 0 THEN -1 ELSE (part * 1000) \div whole

\* The polygon-with-polygon checks shared by both copies.
PolygonPairChecks(f1, f2, i, j) ==
    LET b1 == BBox(f1.coords)
        b2 == BBox(f2.coords)
    IN  When(booleanIntersects(f1, f2) /\ IntersectionAreaCm2(b1, b2) > MinAreaCm2,
             PairError("polygonsIntersect", i, j, IntersectionAreaCm2(b1, b2)))
        \o When(booleanContains(f1, f2),
                PairError("contains", i, j, PerMille(Abs(Shoelace(f2.coords, 1)), Abs(Shoelace(f1.coords, 1)))))

\* The further polygon-with-polygon checks of the basic copy: containment
\* the other way round; adjacency (turf.distanceToLine is no function of
\* turf, the call throws and the catch skips the check); the gap check, where
\* area(union) = area1 + area2 - area(intersection).
PolygonPairChecksBasic(f1, f2, i, j) ==
    LET b1 == BBox(f1.coords)
        b2 == BBox(f2.coords)
        unionArea == AreaCm2(f1.coords) + AreaCm2(f2.coords) - IntersectionAreaCm2(b1, b2)
        gapArea == unionArea - AreaCm2(f1.coords) - AreaCm2(f2.coords)
    IN  When(booleanContains(f2, f1),
             Entry("contains", <<j, i>>, "error",
                   PerMille(Abs(Shoelace(f1.coords, 1)), Abs(Shoelace(f2.coords, 1))), <<i, j>>))
        \o When(gapArea > MinAreaCm2, PairError("gap", i, j, gapArea))

\* The checks of one pair (i, j), i < j, in the order the loop body makes them.
PairCheck(tfs, i, j) ==
    LET f1 == tfs[i]
        f2 == tfs[j]
        bothLines == f1.type = "LineString" /\ f2.type = "LineString"
        bothPolygons == f1.type = "Polygon" /\ f2.type = "Polygon"
        linePolygon == f1.type = "LineString" /\ f2.type = "Polygon"
        polygonLine == f1.type = "Polygon" /\ f2.type = "LineString"
        overlap == When(~booleanOverlapThrows(f1, f2) /\ booleanOverlap(f1, f2),
                        PairError("overlap", i, j, 0))
        cross == When(bothLines /\ LinesCross(f1.coords, f2.coords),
                      PairError("linesCross", i, j, 0))
    IN  IF variant = "annotated"
        THEN overlap \o cross
             \o (IF bothPolygons THEN PolygonPairChecks(f1, f2, i, j) ELSE <<>>)
        ELSE overlap \o cross
             \o (IF bothPolygons
                 THEN PolygonPairChecks(f1, f2, i, j) \o PolygonPairChecksBasic(f1, f2, i, j)
                 ELSE <<>>)
             \o (IF linePolygon THEN LinePolygonChecks(f1, f2, i, j, <<i, j>>) ELSE <<>>)
             \o (IF polygonLine THEN LinePolygonChecks(f2, f1, j, i, <<i, j>>) ELSE <<>>)
             \o (IF bothLines THEN DanglingCheck(f1, f2, i, j) ELSE <<>>)

\* (mutant) the scan ends with the first pair that has a finding
PairPassEndsAtFinding(tfs) ==
    LET all == {p \in (1..Len(tfs)) \X (1..Len(tfs)) : p[1] < p[2]}
        hit == {p \in all : PairCheck(tfs, p[1], p[2]) # <<>>}
    IN  IF hit = {} THEN <<>>
        ELSE LET first == CHOOSE p \in hit :
                              \A q \in hit : q[1] > p[1] \/ (q[1] = p[1] /\ q[2] >= p[2])
             IN  PairCheck(tfs, first[1], first[2])
\* for (i ...) for (j = i + 1 ...)
PairPass(tfs) ==
    LET row(i) == LET one(j) == PairCheck(tfs, i, j)
                  IN  ConcatOver(one, i + 1, Len(tfs))
    IN  ConcatOver(row, 1, Len(tfs))

\* The polygon-group pass of the basic copy: with more than two polygons,
\* every pair of polygons that has two or more vertex pairs within 0.1 m.
SharedCount(c1, c2) ==
    Cardinality({p \in (1..Len(c1)) \X (1..Len(c2)) :
                    DistanceBelow(c1[p[1]], c2[p[2]], PointCoincideCm)})
GroupPass(tfs) ==
    LET polys == {i \in 1..Len(tfs) : tfs[i].type = "Polygon"}
        pair(i, j) == When(i \in polys /\ j \in polys
                           /\ SharedCount(tfs[i].coords, tfs[j].coords) >= 2,
                           PairInfo("sharedBoundary", i, j,
                                    SharedCount(tfs[i].coords, tfs[j].coords)))
        row(i) == LET one(j) == pair(i, j)
                  IN  ConcatOver(one, i + 1, Len(tfs))
    IN  IF variant = "basic" /\ Cardinality(polys) > 2
        THEN ConcatOver(row, 1, Len(tfs))
        ELSE <<>>

\* errorFeatureIndices: a Set keeps the order of first insertion
RECURSIVE AddAll(_, _)
AddAll(set, xs) ==
    IF xs = <<>> THEN set
    ELSE AddAll(IF \E k \in 1..Len(set) : set[k] = Head(xs) THEN set
                ELSE Append(set, Head(xs)), Tail(xs))
RECURSIVE ErrorFeatureIndices(_, _)
ErrorFeatureIndices(set, es) ==
    IF es = <<>> THEN set
    ELSE ErrorFeatureIndices(AddAll(set, Head(es).adds), Tail(es))

\* (mutant) the clear of highlightSource is forgotten
KeptHighlight(hl) == hl
\* highlightSource.clear()
ClearedHighlight(hl) == <<>>

\* The highlight features: one clone per index of errorFeatureIndices;
\* `of` is the index, geom the cloned geometry.
HighlightFeatures(features, indices) ==
    [k \in 1..Len(indices) |->
        [of |-> indices[k], geom |-> features[indices[k]]]]

\* checkTopology as a function of what it reads: the features of drawSource
\* and the content of highlightSource.  status: "noFeatures" (the early
\* return), "exception" (the conversion threw, nothing is reported),
\* "errors" (the $alert) or "clean" (the success message).
Validate(features, hl) ==
    IF Len(features) = 0
    THEN [status |-> "noFeatures", errors |-> <<>>, highlight |-> hl]
    ELSE IF \E i \in 1..Len(features) : turfThrows(features[i])
    THEN [status |-> "exception", errors |-> <<>>, highlight |-> ClearedHighlight(hl)]
    ELSE LET tfs == [i \in 1..Len(features) |-> TurfFeature(features[i])]
             errors == SelfPass(tfs) \o PairPass(tfs) \o GroupPass(tfs)
             indices == ErrorFeatureIndices(<<>>, errors)
         IN  [status |-> IF Len(errors) > 0 THEN "errors" ELSE "clean",
              errors |-> errors,
              highlight |-> ClearedHighlight(hl) \o HighlightFeatures(features, indices)]

\* ---------------------------------------------------------------- inputs
\* What the user can draw (map coordinates; lon/lat is three times as much).
PointIn == Geom("Point", <<<<10, 10>>>>)
PointEdge == Geom("Point", <<<<1000, 10>>>>)
PointOut == Geom("Point", <<<<4000, 10>>>>)
LineShort == Geom("LineString", <<<<10, 10>>, <<10, 10>>>>)
LineOut == Geom("LineString", <<<<0, 0>>, <<4000, 40>>>>)
PolygonOpen == Geom("Polygon", <<<<0, 0>>, <<0, 10>>, <<10, 0>>>>)
PolygonSquare == Geom("Polygon", <<<<0, 0>>, <<0, 20>>, <<20, 20>>, <<20, 0>>, <<0, 0>>>>)
PolygonOut == Geom("Polygon", <<<<0, 0>>, <<0, 20>>, <<4000, 20>>, <<4000, 0>>, <<0, 0>>>>)
Shapes == {PointIn, PointEdge, PointOut, LineShort, LineOut,
           PolygonOpen, PolygonSquare, PolygonOut}
LineAcross == Geom("LineString", <<<<5, 5>>, <<40, 5>>>>)
PolygonShifted == Geom("Polygon", <<<<10, 10>>, <<10, 30>>, <<30, 30>>, <<30, 10>>, <<10, 10>>>>)
TopologyShapes == {PointIn, LineShort, LineAcross, PolygonOpen, PolygonSquare, PolygonShifted}
\* Shapes for the checks of one pair.  A point 10 m from PointIn; lines whose
\* endpoints are 0.33 m from, on one, on both, and far from the endpoints of
\* LineBase; two short lines that cross; a line of three equal vertices; a
\* square inside PolygonSquare.
PointTenMetres == Geom("Point", <<<<40, 10>>>>)
LineBase == Geom("LineString", <<<<100, 100>>, <<110, 100>>>>)
LineDangling == Geom("LineString", <<<<111, 100>>, <<120, 105>>>>)
LineTouching == Geom("LineString", <<<<110, 100>>, <<120, 105>>>>)
LineLoop == Geom("LineString", <<<<110, 100>>, <<105, 110>>, <<100, 100>>>>)
LineFar == Geom("LineString", <<<<200, 200>>, <<210, 200>>>>)
LineRising == Geom("LineString", <<<<300, 300>>, <<302, 302>>>>)
LineFalling == Geom("LineString", <<<<300, 302>>, <<302, 300>>>>)
LineTriple == Geom("LineString", <<<<50, 50>>, <<50, 50>>, <<50, 50>>>>)
PolygonInner == Geom("Polygon", <<<<5, 5>>, <<5, 15>>, <<15, 15>>, <<15, 5>>, <<5, 5>>>>)
PairShapes == {PointIn, PointTenMetres, LineBase, LineDangling, LineTouching, LineLoop,
               LineFar, LineRising, LineFalling, LineTriple,
               PolygonSquare, PolygonInner, PolygonShifted}

\* What the user can type into the range form: <<minX, minY, maxX, maxY>>.
FormSquare == <<FNum(0), FNum(0), FNum(3000), FNum(3000)>>
FormSmall == <<FNum(0), FNum(0), FNum(1500), FNum(1500)>>
FormInverted == <<FNum(3000), FNum(0), FNum(0), FNum(3000)>>
FormLonDomain == <<FNum(0), FNum(0), FNum(200000000), FNum(3000)>>
FormLatDomain == <<FNum(0), FNum(-95000000), FNum(3000), FNum(3000)>>
FormThin == <<FNum(0), FNum(0), FNum(999), FNum(3000)>>
FormBlank == <<FBlank, FNum(0), FNum(3000), FNum(3000)>>
FormJunk == <<FJunk, FNum(0), FNum(3000), FNum(3000)>>
FormEmpty == <<FEmpty, FNum(0), FNum(3000), FNum(3000)>>
Forms == {FormSquare, FormSmall, FormInverted, FormLonDomain, FormLatDomain,
          FormThin, FormBlank, FormJunk, FormEmpty}

\* ----------------------------------------------------------------- actions
\* What a handler shows: which handler, which message, and for checkTopology
\* the `errors` it lists.  A handler that shows nothing leaves Silent.
Feedback(o, m, es) == [op |-> o, msg |-> m, errors |-> es]
Silent == Feedback("none", "none", <<>>)
\* No pair taken yet.
NoShards == [p \in {} |-> <<>>]
\* A page that is not loaded.
NotLoaded == [loaded |-> FALSE]

Init ==
    /\ variant \in {"basic", "annotated"}
    /\ drawSource = <<>>
    /\ highlightSource = <<>>
    /\ rangeExtent = Null
    /\ rangeLayer = <<>>
    /\ drawInteraction = Null
    /\ mapInteractions = {}
    /\ drawingMode = NoMode
    /\ dialogVisible = FALSE
    /\ last = Silent
    /\ shards = NoShards
    /\ track = NotLoaded /\ drag = NotLoaded /\ flash = NotLoaded

\* new Draw({source: drawSource, type: type}): a fresh interaction
NewDraw(type) ==
    LET used == {it.id : it \in mapInteractions}
                \cup (IF drawInteraction = Null THEN {} ELSE {drawInteraction.id})
    IN  [id |-> CHOOSE n \in 1..3 : n \notin used /\ \A m \in 1..(n - 1) : m \in used,
         type |-> type]

\* (mutant) the old interaction is left on the map
LeftOnMap == mapInteractions
\* map.removeInteraction(drawInteraction) when drawInteraction is set
RemovedFromMap == IF drawInteraction = Null THEN mapInteractions
                  ELSE mapInteractions \ {drawInteraction}

\* The range dialog is modal: while it is open the toolbar and the map take
\* no clicks.
startDrawing(type) ==
    /\ ~dialogVisible
    /\ IF variant = "annotated" /\ rangeExtent = Null
       THEN \* the interaction is taken off the map, then the early return
            /\ mapInteractions' = RemovedFromMap
            /\ last' = Feedback("startDrawing", "noRange", <<>>)
            /\ UNCHANGED <<drawInteraction, drawingMode>>
       ELSE /\ drawingMode' = type
            /\ drawInteraction' = NewDraw(type)
            /\ mapInteractions' = RemovedFromMap \cup {NewDraw(type)}
            /\ last' = Silent
    /\ UNCHANGED <<demos, shards, variant, drawSource, highlightSource, rangeExtent, rangeLayer,
                   dialogVisible>>

\* (mutant) the handler does not take the feature out again
AfterDrawendKeeps(features, g, range) == Append(features, g)
\* What the drawend handling leaves in drawSource.  The Draw interaction puts
\* the finished feature g into drawSource (source: drawSource); the drawend
\* handler takes it out again when a range is installed and g is not within it.
AfterDrawend(features, g, range) ==
    IF range # Null /\ ~Admitted(g, range.ext) THEN features
    ELSE Append(features, g)

\* The user finishes a sketch g with an installed Draw interaction of g's type.
drawendUpTo(g, cap) ==
    /\ ~dialogVisible
    /\ \E it \in mapInteractions : it.type = g.kind
    /\ Len(drawSource) < cap
    /\ drawSource' = AfterDrawend(drawSource, g, rangeExtent)
    /\ last' = IF rangeExtent # Null /\ ~Admitted(g, rangeExtent.ext)
               THEN Feedback("drawend", "outOfRange", <<g>>)
               ELSE Silent
    /\ UNCHANGED <<demos, shards, variant, highlightSource, rangeExtent, rangeLayer, drawInteraction,
                   mapInteractions, drawingMode, dialogVisible>>

\* (mutant) highlightSource.clear() is forgotten
clearAllDrawingsKeepsHighlight ==
    /\ ~dialogVisible
    /\ drawSource' = <<>>
    /\ mapInteractions' = RemovedFromMap
    /\ drawInteraction' = Null
    /\ drawingMode' = NoMode
    /\ last' = Silent
    /\ UNCHANGED <<demos, shards, variant, highlightSource, rangeExtent, rangeLayer,
                   dialogVisible>>
clearAllDrawings ==
    /\ ~dialogVisible
    /\ drawSource' = <<>>
    /\ highlightSource' = <<>>
    /\ mapInteractions' = RemovedFromMap
    /\ drawInteraction' = Null
    /\ drawingMode' = NoMode
    /\ last' = Silent
    /\ UNCHANGED <<demos, shards, variant, rangeExtent, rangeLayer, dialogVisible>>

\* (mutant) `errors` outlives the call: the new findings are appended
checkTopologyKeepsErrors ==
    LET r == Validate(drawSource, highlightSource)
    IN  /\ ~dialogVisible
        /\ highlightSource' = r.highlight
        /\ last' = Feedback("checkTopology", r.status,
                            IF last.op = "checkTopology" THEN last.errors \o r.errors
                            ELSE r.errors)
        /\ UNCHANGED <<demos, shards, variant, drawSource, rangeExtent, rangeLayer, drawInteraction,
                       mapInteractions, drawingMode, dialogVisible>>
\* (mutant) the features reported are dropped from drawSource
checkTopologyDropsChecked ==
    LET r == Validate(drawSource, highlightSource)
    IN  /\ ~dialogVisible
        /\ highlightSource' = r.highlight
        /\ last' = Feedback("checkTopology", r.status, r.errors)
        /\ drawSource' = IF r.status = "errors" THEN <<>> ELSE drawSource
        /\ UNCHANGED <<demos, shards, variant, rangeExtent, rangeLayer, drawInteraction,
                       mapInteractions, drawingMode, dialogVisible>>
checkTopology ==
    LET r == Validate(drawSource, highlightSource)
    IN  /\ ~dialogVisible
        /\ highlightSource' = r.highlight
        /\ last' = Feedback("checkTopology", r.status, r.errors)
        /\ UNCHANGED <<demos, shards, variant, drawSource, rangeExtent, rangeLayer, drawInteraction,
                       mapInteractions, drawingMode, dialogVisible>>

setDrawingRange ==
    /\ ~dialogVisible
    /\ dialogVisible' = TRUE
    /\ last' = Silent
    /\ UNCHANGED <<demos, shards, variant, drawSource, highlightSource, rangeExtent, rangeLayer,
                   drawInteraction, mapInteractions, drawingMode>>

handleClose ==
    /\ dialogVisible
    /\ dialogVisible' = FALSE
    /\ last' = Silent
    /\ UNCHANGED <<demos, shards, variant, drawSource, highlightSource, rangeExtent, rangeLayer,
                   drawInteraction, mapInteractions, drawingMode>>

\* The rectangle confirmRange puts on the range layer (annotated copy).
RangeFeature(minX, minY, maxX, maxY) ==
    LET minCoord == fromLonLat(<<minX.v, minY.v>>)
        maxCoord == fromLonLat(<<maxX.v, maxY.v>>)
    IN  Geom("Polygon", <<<<minCoord[1], minCoord[2]>>, <<maxCoord[1], minCoord[2]>>,
                          <<maxCoord[1], maxCoord[2]>>, <<minCoord[1], maxCoord[2]>>,
                          <<minCoord[1], minCoord[2]>>>>)

\* What confirmRange answers for the form: "formInvalid", the failed check of
\* RangeCheck, or "ok".
RangeAnswer(form) ==
    IF ~FormValid(form) THEN "formInvalid"
    ELSE RangeCheck(parseFloat(form[1]), parseFloat(form[2]),
                    parseFloat(form[3]), parseFloat(form[4]))

confirmRange(form) ==
    LET minX == parseFloat(form[1])
        minY == parseFloat(form[2])
        maxX == parseFloat(form[3])
        maxY == parseFloat(form[4])
    IN  /\ dialogVisible
        /\ IF RangeAnswer(form) # "ok"
           THEN /\ last' = Feedback("confirmRange", RangeAnswer(form), <<form>>)
                /\ UNCHANGED <<rangeExtent, rangeLayer, dialogVisible>>
           ELSE /\ rangeExtent' = [ext |-> <<minX, minY, maxX, maxY>>]
                /\ rangeLayer' = IF variant = "annotated"
                                 THEN <<RangeFeature(minX, minY, maxX, maxY)>>
                                 ELSE rangeLayer
                /\ dialogVisible' = FALSE
                /\ last' = Feedback("confirmRange", "rangeSet", <<form>>)
        /\ UNCHANGED <<demos, shards, variant, drawSource, highlightSource, drawInteraction,
                       mapInteractions, drawingMode>>

DrawTypes == {"Point", "LineString", "Polygon"}

\* Every shape and every form, up to MaxFeatures features.
Next ==
    \/ \E type \in DrawTypes : startDrawing(type)
    \/ \E g \in Shapes : drawendUpTo(g, MaxFeatures)
    \/ clearAllDrawings
    \/ checkTopology
    \/ setDrawingRange
    \/ handleClose
    \/ \E form \in Forms : confirmRange(form)

Spec == Init /\ [][Next]_vars

\* The shapes that matter to checkTopology, up to MaxChecked features, one
\* range that admits them all.
NextTopology ==
    \/ \E type \in DrawTypes : startDrawing(type)
    \/ \E g \in TopologyShapes : drawendUpTo(g, MaxChecked)
    \/ clearAllDrawings
    \/ checkTopology
    \/ setDrawingRange
    \/ handleClose
    \/ \E form \in {FormSquare, FormInverted} : confirmRange(form)

SpecTopology == Init /\ [][NextTopology]_vars

\* The shapes that matter to the checks of one pair, up to MaxPair features,
\* one range that admits them all.
NextPairs ==
    \/ \E type \in DrawTypes : startDrawing(type)
    \/ \E g \in PairShapes : drawendUpTo(g, MaxPair)
    \/ clearAllDrawings
    \/ checkTopology
    \/ setDrawingRange
    \/ handleClose
    \/ confirmRange(FormSquare)

SpecPairs == Init /\ [][NextPairs]_vars

\* Shapes for the findings about areas and for the notes that are no errors:
\* a line inside PolygonSquare that does not reach its boundary, a square that
\* shares an edge with PolygonSquare, a square 0.33 m beside it (the strip
\* between the two is 2.2 m^2), and a square of 0.11 m^2.
LineInside == Geom("LineString", <<<<5, 5>>, <<15, 5>>>>)
PolygonBeside == Geom("Polygon", <<<<20, 0>>, <<20, 20>>, <<40, 20>>, <<40, 0>>, <<20, 0>>>>)
PolygonApart == Geom("Polygon", <<<<21, 0>>, <<21, 20>>, <<41, 20>>, <<41, 0>>, <<21, 0>>>>)
PolygonTiny == Geom("Polygon", <<<<50, 50>>, <<50, 51>>, <<51, 51>>, <<51, 50>>, <<50, 50>>>>)
NoteShapes == {PolygonSquare, LineInside, PolygonBeside, PolygonApart, PolygonTiny}

\* The same handlers on these shapes, up to MaxNotes features.
NextNotes ==
    \/ \E type \in DrawTypes : startDrawing(type)
    \/ \E g \in NoteShapes : drawendUpTo(g, MaxNotes)
    \/ clearAllDrawings
    \/ checkTopology
    \/ setDrawingRange
    \/ handleClose
    \/ confirmRange(FormSquare)

SpecNotes == Init /\ [][NextNotes]_vars

\* ------------------------------------------------- the pair scan, sharded
\* The body of the pair loop taken for one pair at a time, in any order, each
\* run of the body keeping the errors it found; then the results are merged,
\* last pair of the scan first, and the part of checkTopology that follows
\* the loop is done.  The snapshot is any collection of up
\* to MaxSharded features the user can have drawn (in the annotated copy the
\* range FormSquare is installed, without it nothing can be drawn).
ShardShapes == {PolygonSquare, PolygonShifted, LineAcross}
Snapshots == UNION {[1..n -> ShardShapes] : n \in 0..MaxSharded}
PairsOf(features) == {p \in (1..Len(features)) \X (1..Len(features)) : p[1] < p[2]}

InitSharded ==
    /\ variant \in {"basic", "annotated"}
    /\ drawSource \in Snapshots
    /\ highlightSource = <<>>
    /\ rangeExtent = IF variant = "annotated"
                     THEN [ext |-> <<Num(0), Num(0), Num(3000), Num(3000)>>]
                     ELSE Null
    /\ rangeLayer = IF variant = "annotated"
                    THEN <<RangeFeature(Num(0), Num(0), Num(3000), Num(3000))>>
                    ELSE <<>>
    /\ drawInteraction = IF Len(drawSource) = 0 THEN Null
                         ELSE [id |-> 1, type |-> drawSource[Len(drawSource)].kind]
    /\ mapInteractions = IF Len(drawSource) = 0 THEN {} ELSE {drawInteraction}
    /\ drawingMode = IF Len(drawSource) = 0 THEN NoMode
                     ELSE drawSource[Len(drawSource)].kind
    /\ dialogVisible = FALSE
    /\ last = Silent
    /\ shards = NoShards
    /\ track = NotLoaded /\ drag = NotLoaded /\ flash = NotLoaded

\* One run of the loop body, for the pair (i, j).
checkPair(i, j) ==
    LET tfs == [k \in 1..Len(drawSource) |-> TurfFeature(drawSource[k])]
    IN  /\ <<i, j>> \in PairsOf(drawSource) \ DOMAIN shards
        /\ shards' = [p \in DOMAIN shards \cup {<<i, j>>} |->
                         IF p = <<i, j>> THEN PairCheck(tfs, i, j) ELSE shards[p]]
        /\ UNCHANGED <<demos, variant, drawSource, highlightSource, rangeExtent, rangeLayer,
                       drawInteraction, mapInteractions, drawingMode, dialogVisible, last>>

\* The results of the pairs in `left`, the pair that the scan takes last first.
RECURSIVE Merged(_, _)
Merged(results, left) ==
    IF left = {} THEN <<>>
    ELSE LET latest == CHOOSE p \in left :
                          \A q \in left : q[1] < p[1] \/ (q[1] = p[1] /\ q[2] <= p[2])
         IN  results[latest] \o Merged(results, left \ {latest})

\* All pairs done: the highlight features and the report, as checkTopology
\* makes them after the loop.
mergeShards ==
    LET tfs == [k \in 1..Len(drawSource) |-> TurfFeature(drawSource[k])]
        errors == SelfPass(tfs) \o Merged(shards, DOMAIN shards) \o GroupPass(tfs)
        indices == ErrorFeatureIndices(<<>>, errors)
    IN  /\ Len(drawSource) > 0
        /\ last.op # "mergeShards"
        /\ DOMAIN shards = PairsOf(drawSource)
        /\ highlightSource' = HighlightFeatures(drawSource, indices)
        /\ last' = Feedback("mergeShards",
                            IF Len(errors) > 0 THEN "errors" ELSE "clean", errors)
        /\ UNCHANGED <<demos, shards, variant, drawSource, rangeExtent, rangeLayer,
                       drawInteraction, mapInteractions, drawingMode, dialogVisible>>

NextSharded ==
    \/ \E i, j \in 1..MaxSharded : checkPair(i, j)
    \/ mergeShards

SpecSharded == InitSharded /\ [][NextSharded]_vars

\* ------------------------------------------------ the track-animation demo
\* GIS/Openlayers/demo-for-track/main.js.  track.animating, track.distance and
\* track.lastTime are the variables of that name; track.postrender is the set
\* of listeners registered on vectorLayer's postrender event, track.geoMarker
\* the geometry of the geoMarker feature.  distance counts 1e-6 of the route
\* (2000000 is the way there and back), times are in ms.
editor == <<variant, drawSource, highlightSource, rangeExtent, rangeLayer,
            drawInteraction, mapInteractions, drawingMode, dialogVisible, last, shards>>
EditorNotLoaded ==
    /\ variant = "none"
    /\ drawSource = <<>> /\ highlightSource = <<>>
    /\ rangeExtent = Null /\ rangeLayer = <<>>
    /\ drawInteraction = Null /\ mapInteractions = {} /\ drawingMode = NoMode
    /\ dialogVisible = FALSE /\ last = Silent /\ shards = NoShards

\* `let lastTime;`: no value yet
Undefined == -1
\* distance + x is taken % 2: one unit of distance is 1e6 of the model's
RouteUnit == 1000000
\* Values of Date.now() and of event.frameState.time (both the wall clock,
\* which may be set back), and values of the speed slider.
Times == {0, 10, 20, 30}
Speeds == {0, 30000, 100000}

\* The % of JavaScript: the result has the sign of the dividend.
JsRem(a, m) == IF a >= 0 THEN a % m ELSE -((-a) % m)

\* track.postrender is the set of listeners of vectorLayer's postrender
\* event: ol/events/Target registers a listener at most once per type.

InitTrack ==
    /\ EditorNotLoaded
    /\ drag = NotLoaded /\ flash = NotLoaded
    /\ track = [loaded |-> TRUE, animating |-> FALSE, distance |-> 0,
                lastTime |-> Undefined, postrender |-> {}, geoMarker |-> "position"]

startAnimation(now) ==
    [track EXCEPT !.animating = TRUE, !.lastTime = now,
                  !.postrender = track.postrender \cup {"moveFeature"},
                  !.geoMarker = "null"]
\* (mutant) the listener is not taken off
stopAnimationKeepsListener ==
    [track EXCEPT !.animating = FALSE, !.geoMarker = "position"]
stopAnimation ==
    [track EXCEPT !.animating = FALSE, !.geoMarker = "position",
                  !.postrender = track.postrender \ {"moveFeature"}]

\* The click handler of the start/stop button.
startButtonClick(now) ==
    /\ track' = IF track.animating THEN stopAnimation ELSE startAnimation(now)
    /\ UNCHANGED <<editor, drag, flash>>

\* The fraction handed to route.getCoordinateAt
RouteFraction(distance) == IF distance > RouteUnit THEN 2 * RouteUnit - distance ELSE distance

\* A frame is rendered: postrender calls the registered listener.
moveFeature(speed, time) ==
    /\ "moveFeature" \in track.postrender
    /\ LET elapsedTime == time - track.lastTime
       IN  track' = [track EXCEPT
                        !.distance = JsRem(track.distance + speed * elapsedTime, 2 * RouteUnit),
                        !.lastTime = time]
    /\ UNCHANGED <<editor, drag, flash>>

NextTrack ==
    \/ \E now \in Times : startButtonClick(now)
    \/ \E speed \in Speeds, time \in Times : moveFeature(speed, time)

SpecTrack == InitTrack /\ [][NextTrack]_vars

\* ------------------------------------------------- the drag-and-drop demo
\* GIS/Openlayers/demo-for-drag/main.js (src/unnamed/part_002 is the same
\* program with comments).  drag.layers is map.getLayers(), bottom first;
\* drag.classList says for each of the two buttons whether the class
\* `active` is set: "markup" is the state the page gives the button (the
\* page is not part of the sources), "active" / "inactive" what the handlers
\* have written; drag.extractStyles is the checkbox of that name.
BaseButtons == {"map-tianditu", "map-osm"}

InitDrag ==
    /\ EditorNotLoaded
    /\ track = NotLoaded /\ flash = NotLoaded
    /\ drag = [loaded |-> TRUE,
               layers |-> <<"tiandituLayer", "tiandituAnnotationLayer", "markerLayer">>,
               classList |-> [b \in BaseButtons |-> "markup"],
               extractStyles |-> FALSE]

\* collection.remove(elem): the first occurrence is taken out, if any
RECURSIVE Remove(_, _)
Remove(layers, elem) ==
    IF layers = <<>> THEN <<>>
    ELSE IF Head(layers) = elem THEN Tail(layers)
    ELSE <<Head(layers)>> \o Remove(Tail(layers), elem)
Has(layers, elem) == \E k \in 1..Len(layers) : layers[k] = elem
\* collection.insertAt(index, elem), index counted from 0.  The layers of a
\* map are a collection made with unique: true: insertAt asserts first that
\* elem is not in it (Has), and the assertion error ends the handler.
InsertAt(layers, index, elem) ==
    SubSeq(layers, 1, index) \o <<elem>> \o SubSeq(layers, index + 1, Len(layers))

switchToTianditu ==
    LET removed == Remove(drag.layers, "osmLayer")
        first == InsertAt(removed, 0, "tiandituLayer")
        second == InsertAt(first, 1, "tiandituAnnotationLayer")
    IN  /\ drag' = IF Has(removed, "tiandituLayer")
                   THEN [drag EXCEPT !.layers = removed]
                   ELSE IF Has(first, "tiandituAnnotationLayer")
                   THEN [drag EXCEPT !.layers = first]
                   ELSE [drag EXCEPT !.layers = second,
                                     !.classList = [b \in BaseButtons |->
                                         IF b = "map-tianditu" THEN "active" ELSE "inactive"]]
        /\ UNCHANGED <<editor, track, flash>>

\* (mutant) the annotation layer is not taken out
switchToOSMKeepsAnnotation ==
    LET removed == Remove(drag.layers, "tiandituLayer")
    IN  /\ drag' = IF Has(removed, "osmLayer")
                   THEN [drag EXCEPT !.layers = removed]
                   ELSE [drag EXCEPT !.layers = InsertAt(removed, 0, "osmLayer"),
                                     !.classList = [b \in BaseButtons |->
                                         IF b = "map-osm" THEN "active" ELSE "inactive"]]
        /\ UNCHANGED <<editor, track, flash>>
switchToOSM ==
    LET removed == Remove(Remove(drag.layers, "tiandituLayer"), "tiandituAnnotationLayer")
    IN  /\ drag' = IF Has(removed, "osmLayer")
                   THEN [drag EXCEPT !.layers = removed]
                   ELSE [drag EXCEPT !.layers = InsertAt(removed, 0, "osmLayer"),
                                     !.classList = [b \in BaseButtons |->
                                         IF b = "map-osm" THEN "active" ELSE "inactive"]]
        /\ UNCHANGED <<editor, track, flash>>

\* The addfeatures handler: a file of the format is dropped, its features go
\* into a new vector layer on top.
addfeatures(format, cap) ==
    /\ Cardinality({k \in 1..Len(drag.layers) : drag.layers[k] \in {"GPX", "GeoJSON", "KML"}}) < cap
    /\ drag' = [drag EXCEPT !.layers = Append(drag.layers, format)]
    /\ UNCHANGED <<editor, track, flash>>

\* The change handler of the extractStyles checkbox: the interaction is made
\* anew with the new setting.
setInteraction ==
    /\ drag' = [drag EXCEPT !.extractStyles = ~drag.extractStyles]
    /\ UNCHANGED <<editor, track, flash>>

NextDrag ==
    \/ switchToTianditu
    \/ switchToOSM
    \/ \E format \in {"GPX", "GeoJSON", "KML"} : addfeatures(format, MaxDropped)
    \/ setInteraction

SpecDrag == InitDrag /\ [][NextDrag]_vars

\* ------------------------------------------------ the flashing-points demo
\* python/LangChain/langchain_rag_qwen_bge/README.md, lines 127-342.
\* flash.clock is Date.now() in ms since the page was loaded; flash.base is
\* map.getLayers().item(0); flash.listeners are the `animate` listeners that
\* flash() has registered and unByKey has not removed: `start` is the start
\* of that call of flash, `on` the layer whose postrender event it listens
\* to; flash.frameTime is frameState.time of the last frame rendered;
\* flash.added counts the features added.
\* const duration = 3000
duration == 3000
\* window.setInterval(addRandomFeature, 1000)
IntervalMs == 1000

InitFlash ==
    /\ EditorNotLoaded
    /\ track = NotLoaded /\ drag = NotLoaded
    /\ flash = [loaded |-> TRUE, clock |-> 0, frameTime |-> Undefined,
                base |-> "osmLayer", listeners |-> {}, added |-> 0, lastAdd |-> Undefined]

\* The layers that a frame renders below the vector layer.
Rendered(base) ==
    IF base = "tiandituGroup" THEN {"tiandituImageLayer", "tiandituAnnotationLayer"}
    ELSE {base}

\* The interval timer fires: addRandomFeature, and the addfeature listener
\* calls flash(e.feature), which listens to the base layer, or to the first
\* layer of the group when the base layer is a LayerGroup.
addRandomFeature ==
    /\ flash.added < MaxFlashes
    /\ flash.lastAdd # flash.clock
    /\ flash' = [flash EXCEPT
                    !.added = flash.added + 1,
                    !.lastAdd = flash.clock,
                    !.listeners = flash.listeners \cup
                        {[id |-> flash.added + 1, start |-> flash.clock,
                          on |-> IF flash.base = "tiandituGroup"
                                 THEN "tiandituImageLayer" ELSE flash.base]}]
    /\ UNCHANGED <<editor, track, drag>>

\* One interval of time goes by.
tick ==
    /\ flash.clock < MaxSeconds * IntervalMs
    /\ flash' = [flash EXCEPT !.clock = flash.clock + IntervalMs]
    /\ UNCHANGED <<editor, track, drag>>

\* A frame is rendered at `time`: each layer that is rendered calls its
\* postrender listeners; animate takes itself off when elapsed >= duration.
AfterFrame(listeners, base, time) ==
    {l \in listeners : ~(l.on \in Rendered(base) /\ time - l.start >= duration)}
postrender ==
    /\ flash' = [flash EXCEPT
                    !.frameTime = flash.clock,
                    !.listeners = AfterFrame(flash.listeners, flash.base, flash.clock)]
    /\ UNCHANGED <<editor, track, drag>>

\* The click handlers of the two base-map buttons: removeAt(0), insertAt(0, ...).
switchBase(layer) ==
    /\ flash' = [flash EXCEPT !.base = layer]
    /\ UNCHANGED <<editor, track, drag>>

NextFlash ==
    \/ addRandomFeature
    \/ tick
    \/ postrender
    \/ \E layer \in {"osmLayer", "tiandituGroup"} : switchBase(layer)

SpecFlash == InitFlash /\ [][NextFlash]_vars

\* ================================================================== claims
Checked == last.op = "checkTopology"
Indices(seq) == {seq[k] : k \in 1..Len(seq)}

Compared(c) == IF variant = "annotated" THEN toLonLat(c) ELSE c
InsideExtent(c, ext) ==
    /\ Le(ext[1], Num(c[1])) /\ Le(Num(c[1]), ext[3])
    /\ Le(ext[2], Num(c[2])) /\ Le(Num(c[2]), ext[4])
HasVertexOutside(g, ext) ==
    \E i \in 1..Len(g.coords) : ~InsideExtent(Compared(g.coords[i]), ext)

BreaksRule(minX, minY, maxX, maxY) ==
    \/ IsNaN(minX) \/ IsNaN(minY) \/ IsNaN(maxX) \/ IsNaN(maxY)
    \/ ~(Le(Num(-MaxLon), minX) /\ Le(minX, Num(MaxLon)))
    \/ ~(Le(Num(-MaxLon), maxX) /\ Le(maxX, Num(MaxLon)))
    \/ ~(Le(Num(-MaxLat), minY) /\ Le(minY, Num(MaxLat)))
    \/ ~(Le(Num(-MaxLat), maxY) /\ Le(maxY, Num(MaxLat)))
    \/ ~Lt(minX, maxX) \/ ~Lt(minY, maxY)
    \/ ~Ge(Sub(maxX, minX), Num(MinSpan)) \/ ~Ge(Sub(maxY, minY), Num(MinSpan))
FormBreaksRule(form) ==
    \/ \E k \in 1..4 : form[k].txt # "num"
    \/ BreaksRule(parseFloat(form[1]), parseFloat(form[2]),
                  parseFloat(form[3]), parseFloat(form[4]))

\* C4 (as claimed): confirmRange with bounds that break a rule reports an error
\* and leaves the range extent, the range rectangle and the features alone.
C4_InvalidRangeChangesNothing ==
    [][\A form \in Forms :
          (confirmRange(form) /\ FormBreaksRule(form)) =>
              /\ last'.msg # "rangeSet"
              /\ UNCHANGED <<rangeExtent, rangeLayer, drawSource>>]_vars

\* C5 (as claimed): the installed range extent is absent or well-formed.
C5_ExtentWellFormed ==
    rangeExtent = Null
    \/ ~BreaksRule(rangeExtent.ext[1], rangeExtent.ext[2],
                   rangeExtent.ext[3], rangeExtent.ext[4])

ScanPair(ids) == <<Min(ids[1], ids[2]), Max(ids[1], ids[2])>>
ScannedLater(a, b) == a[1] > b[1] \/ (a[1] = b[1] /\ a[2] > b[2])

\* C7 (as claimed, and counting the entries of severity error only): the
\* errors are all one-feature entries first, then the two-feature entries in
\* scan order.
C7_SelfThenPairsInScanOrder ==
    Checked =>
        \A p, q \in {n \in 1..Len(last.errors) : last.errors[n].sev = "error"} :
            p < q =>
               /\ ~(Len(last.errors[p].ids) = 2 /\ Len(last.errors[q].ids) = 1)
               /\ (Len(last.errors[p].ids) = 2 /\ Len(last.errors[q].ids) = 2) =>
                      ~ScannedLater(ScanPair(last.errors[p].ids), ScanPair(last.errors[q].ids))

\* C8: after a run the highlight layer holds exactly the features that an
\* error entry of the run names, each once, as a clone of its geometry.
NamedByErrors(es) ==
    UNION {Indices(es[k].ids) : k \in {n \in 1..Len(es) : es[n].sev = "error"}}
C8_HighlightIsErrorFeatures ==
    Checked =>
        /\ {highlightSource[k].of : k \in 1..Len(highlightSource)} = NamedByErrors(last.errors)
        /\ \A k \in 1..Len(highlightSource) :
              highlightSource[k].geom = drawSource[highlightSource[k].of]
        /\ \A k, m \in 1..Len(highlightSource) :
              highlightSource[k].of = highlightSource[m].of => k = m
C8_Witness ==
    Checked /\ last.msg = "errors" /\ Len(highlightSource) >= 2
    /\ Len(highlightSource) < Len(drawSource)

\* C9: after a run, the errors and the highlights are the ones of the
\* collection as it is, whatever was highlighted before the run.
C9_NothingPersists ==
    Checked =>
        LET fresh == Validate(drawSource, <<>>)
        IN  /\ highlightSource = fresh.highlight
            /\ last.errors = fresh.errors
            /\ Len(drawSource) = 0 => (highlightSource = <<>> /\ last.errors = <<>>)
C9_Witness ==
    Checked /\ last.msg = "clean" /\ Len(drawSource) > 0 /\ highlightSource = <<>>

\* C10: checkTopology changes the report and the highlights only.
C10_ValidateFrame ==
    [][checkTopology =>
          UNCHANGED <<drawSource, rangeExtent, rangeLayer, drawingMode,
                      drawInteraction, mapInteractions>>]_vars
C10_Witness ==
    /\ Checked /\ last.msg = "errors" /\ rangeExtent # Null
    /\ drawInteraction # Null /\ drawInteraction \in mapInteractions

\* The ordinal under which checkTopology reports the feature at position k of
\* drawSource (properties.index = index + 1), and the one the next feature
\* added will be reported under.
ReportedAs(k) == k
NextOrdinal == ReportedAs(Len(drawSource) + 1)

\* C11 (as claimed): a feature keeps its ordinal while it stays in the
\* collection, and no step makes an ordinal that a feature holds now the
\* ordinal of the next feature added.
C11_OrdinalsStableNeverReused ==
    [][/\ \A k \in 1..Len(drawSource) :
             k <= Len(drawSource') => drawSource'[k] = drawSource[k]
       /\ NextOrdinal' \notin {ReportedAs(k) : k \in 1..Len(drawSource)}]_vars

\* C12 (as claimed): while no range extent is installed, a click on a drawing
\* tool installs the draw interaction of that type, and every finished
\* drawing is appended to drawSource.
C12_UnrestrictedWithoutRange ==
    [][rangeExtent = Null =>
          /\ \A type \in DrawTypes :
                startDrawing(type) =>
                    /\ drawingMode' = type
                    /\ \E it \in mapInteractions' : it.type = type /\ drawInteraction' = it
          /\ \A g \in Shapes :
                drawendUpTo(g, MaxFeatures) => drawSource' = Append(drawSource, g)]_vars

\* The entries of es of one of the categories cats that name exactly the
\* features i and j.
EntriesAbout(es, cats, i, j) ==
    {k \in 1..Len(es) : es[k].cat \in cats /\ Indices(es[k].ids) = {i, j}}
BothOfKind(i, j, kind) == drawSource[i].kind = kind /\ drawSource[j].kind = kind
Turf(i) == TurfFeature(drawSource[i]).coords

\* C13 (as claimed): a pair of points closer than the coincidence threshold
\* gives exactly one pointsTooClose entry naming both, any other pair of
\* points none.
C13_OneEntryPerCoincidentPair ==
    Checked /\ last.msg # "exception" =>
        \A i, j \in 1..Len(drawSource) :
            (i < j /\ BothOfKind(i, j, "Point")) =>
                Cardinality(EntriesAbout(last.errors, {"pointsTooClose"}, i, j))
                    = IF DistanceBelow(Turf(i)[1], Turf(j)[1], PointCoincideCm) THEN 1 ELSE 0

\* C14 (as claimed): two polygons that overlap in part, with an intersection
\* of at least the minimum area, give exactly one entry that reports the
\* overlap of the pair, and it carries the intersection area.
C14_OneOverlapEntryWithArea ==
    Checked /\ last.msg # "exception" =>
        \A i, j \in 1..Len(drawSource) :
            (/\ i < j /\ BothOfKind(i, j, "Polygon")
             /\ ~RectContains(BBox(Turf(i)), BBox(Turf(j)))
             /\ ~RectContains(BBox(Turf(j)), BBox(Turf(i)))
             /\ IntersectionAreaCm2(BBox(Turf(i)), BBox(Turf(j))) >= MinAreaCm2) =>
                LET found == EntriesAbout(last.errors, {"overlap", "polygonsIntersect"}, i, j)
                IN  /\ Cardinality(found) = 1
                    /\ \A k \in found :
                          last.errors[k].payload
                              = IntersectionAreaCm2(BBox(Turf(i)), BBox(Turf(j)))

\* The endpoint pairs of the lines i and j that are closer than t cm.
EndpointPairs(i, j, t) ==
    LET ends(c) == {c[1], c[Len(c)]}
    IN  {p \in ends(Turf(i)) \X ends(Turf(j)) : DistanceBelow(p[1], p[2], t)}
CoincidingEnds(i, j) ==
    LET at(c) == <<1, Len(c)>>
    IN  Cardinality({p \in (1..2) \X (1..2) :
            DistanceBelow(Turf(i)[at(Turf(i))[p[1]]], Turf(j)[at(Turf(j))[p[2]]],
                          PointCoincideCm)})

\* C15 (as claimed): for two lines that do not cross, the endpoints decide:
\* none coinciding and the nearest closer than 1 m - one danglingEndpoint
\* entry; exactly one pair coinciding - one singleEndpointConnection entry;
\* otherwise neither.
C15_DanglingByEndpoints ==
    Checked /\ last.msg # "exception" =>
        \A i, j \in 1..Len(drawSource) :
            (i < j /\ BothOfKind(i, j, "LineString") /\ ~LinesCross(Turf(i), Turf(j))) =>
                /\ Cardinality(EntriesAbout(last.errors, {"danglingEndpoint"}, i, j))
                     = IF CoincidingEnds(i, j) = 0 /\ EndpointPairs(i, j, DanglingCm) # {}
                       THEN 1 ELSE 0
                /\ Cardinality(EntriesAbout(last.errors, {"singleEndpointConnection"}, i, j))
                     = IF CoincidingEnds(i, j) = 1 THEN 1 ELSE 0

\* The pairs of vertices of a line that lie within the duplicate epsilon.
DuplicateVertexPairs(c) ==
    {p \in (1..Len(c)) \X (1..Len(c)) :
        /\ p[1] < p[2]
        /\ Abs(c[p[1]][1] - c[p[2]][1]) < CoordEpsilon
        /\ Abs(c[p[1]][2] - c[p[2]][2]) < CoordEpsilon}

\* C17 (as claimed): a line has as many duplicatePoint entries as it has pairs
\* of vertices within the duplicate epsilon.
C17_OneEntryPerDuplicatePair ==
    Checked /\ last.msg # "exception" =>
        \A i \in 1..Len(drawSource) :
            drawSource[i].kind = "LineString" =>
                Cardinality({k \in 1..Len(last.errors) :
                                /\ last.errors[k].cat = "duplicatePoint"
                                /\ last.errors[k].ids = <<i>>})
                    = Cardinality(DuplicateVertexPairs(Turf(i)))

\* C18 (as claimed): two lines that cross give the linesCross entry and no
\* danglingEndpoint entry.
C18_CrossingNotDangling ==
    Checked /\ last.msg # "exception" =>
        \A i, j \in 1..Len(drawSource) :
            (i < j /\ BothOfKind(i, j, "LineString") /\ LinesCross(Turf(i), Turf(j))) =>
                /\ EntriesAbout(last.errors, {"linesCross"}, i, j) # {}
                /\ EntriesAbout(last.errors, {"danglingEndpoint"}, i, j) = {}

\* C19 (as claimed, for two polygons that are not equal): for polygons i < j,
\* a contains entry naming the container first is reported when i contains j
\* and when j contains i; its payload is the area of the contained one
\* relative to the container.
ContainsReported(a, b) ==
    \E k \in EntriesAbout(last.errors, {"contains"}, a, b) :
        /\ last.errors[k].ids = <<a, b>>
        /\ last.errors[k].payload
             = PerMille(Abs(Shoelace(Turf(b), 1)), Abs(Shoelace(Turf(a), 1)))
C19_ContainmentBothWays ==
    Checked /\ last.msg # "exception" =>
        \A i, j \in 1..Len(drawSource) :
            (i < j /\ BothOfKind(i, j, "Polygon") /\ BBox(Turf(i)) # BBox(Turf(j))) =>
                /\ RectContains(BBox(Turf(i)), BBox(Turf(j))) => ContainsReported(i, j)
                /\ RectContains(BBox(Turf(j)), BBox(Turf(i))) => ContainsReported(j, i)

\* How often es has a two-feature entry of category c with payload p.
PairEntryCount(es, c, p) ==
    Cardinality({k \in 1..Len(es) :
                    Len(es[k].ids) = 2 /\ es[k].cat = c /\ es[k].payload = p})

\* C20 (as claimed): with two features, the two-feature entries of the run
\* and those of the run on the same two features in the other order have the
\* same categories and payloads, as often.
C20_PairOrderIrrelevant ==
    (Checked /\ last.msg # "exception" /\ Len(drawSource) = 2) =>
        LET swapped == Validate(<<drawSource[2], drawSource[1]>>, <<>>).errors
            same(es) == \A k \in 1..Len(es) :
                            Len(es[k].ids) = 2 =>
                                PairEntryCount(last.errors, es[k].cat, es[k].payload)
                                    = PairEntryCount(swapped, es[k].cat, es[k].payload)
        IN  same(last.errors) /\ same(swapped)

\* The same elements, each as often.
SameBag(a, b) ==
    /\ Len(a) = Len(b)
    /\ \A k \in 1..Len(a) :
          Cardinality({m \in 1..Len(a) : a[m] = a[k]})
              = Cardinality({m \in 1..Len(b) : b[m] = a[k]})
Highlighted(hl) == {hl[k].of : k \in 1..Len(hl)}

NamedWith(es, s) ==
    UNION {Indices(es[k].ids) : k \in {m \in 1..Len(es) : es[m].sev = s}}

\* C21 (as claimed): a feature that only notes name is not highlighted, and a
\* run whose findings are all notes is reported as a run without errors.
C21_NotesAreNoErrors ==
    Checked /\ last.msg # "exception" =>
        /\ Highlighted(highlightSource)
              \cap (NamedWith(last.errors, "info") \ NamedWith(last.errors, "error")) = {}
        /\ (\A k \in 1..Len(last.errors) : last.errors[k].sev = "info")
              => last.msg \in {"clean", "noFeatures"}

\* The strip between two rectangles that face each other across a gap, in
\* cm^2: the width of the gap times the side they have in common; 0 when
\* they touch, overlap or do not face each other.
SliverAreaCm2(a, b) ==
    LET gapX == Max(a[1], b[1]) - Min(a[3], b[3])
        gapY == Max(a[2], b[2]) - Min(a[4], b[4])
        sideX == Min(a[3], b[3]) - Max(a[1], b[1])
        sideY == Min(a[4], b[4]) - Max(a[2], b[2])
    IN  IF gapX > 0 /\ sideY > 0 THEN gapX * sideY * 124
        ELSE IF gapY > 0 /\ sideX > 0 THEN gapY * sideX * 124
        ELSE 0
\* Narrower than the dangling threshold: the two are meant to share a border.
FaceAcrossSliver(a, b) ==
    /\ SliverAreaCm2(a, b) >= MinAreaCm2
    /\ \/ (Max(a[1], b[1]) - Min(a[3], b[3]) > 0
           /\ DistanceBelow(<<Min(a[3], b[3]), 0>>, <<Max(a[1], b[1]), 0>>, DanglingCm))
       \/ (Max(a[2], b[2]) - Min(a[4], b[4]) > 0
           /\ DistanceBelow(<<0, Min(a[4], b[4])>>, <<0, Max(a[2], b[2])>>, DanglingCm))

\* C22 (as claimed): two polygons with a strip of at least the minimum area
\* between them give a gap entry for the pair, and its payload is
\* area(union) - area(A) - area(B).
C22_GapReported ==
    Checked /\ last.msg # "exception" =>
        \A i, j \in 1..Len(drawSource) :
            (/\ i < j /\ BothOfKind(i, j, "Polygon")
             /\ FaceAcrossSliver(BBox(Turf(i)), BBox(Turf(j)))) =>
                \E k \in EntriesAbout(last.errors, {"gap"}, i, j) :
                    last.errors[k].payload
                        = (AreaCm2(Turf(i)) + AreaCm2(Turf(j))
                           - IntersectionAreaCm2(BBox(Turf(i)), BBox(Turf(j))))
                          - AreaCm2(Turf(i)) - AreaCm2(Turf(j))

\* one square metre in cm^2
SquareMetreCm2 == 10000

\* C24 (as claimed): a valid, closed polygon has an areaTooSmall entry exactly
\* when its area is below 1 m^2, and two polygons have an entry for their
\* intersection only when it has at least 1 m^2.
C24_MinimumAreaIsOneSquareMetre ==
    Checked /\ last.msg # "exception" =>
        /\ \A i \in 1..Len(drawSource) :
              (drawSource[i].kind = "Polygon" /\ booleanValid(Turf(i))) =>
                  ((\E k \in 1..Len(last.errors) :
                        last.errors[k].cat = "areaTooSmall" /\ last.errors[k].ids = <<i>>)
                   <=> AreaCm2(Turf(i)) < SquareMetreCm2)
        /\ \A i, j \in 1..Len(drawSource) :
              (i < j /\ BothOfKind(i, j, "Polygon")
               /\ EntriesAbout(last.errors, {"polygonsIntersect"}, i, j) # {}) =>
                  IntersectionAreaCm2(BBox(Turf(i)), BBox(Turf(j))) >= SquareMetreCm2

\* The ring of polygon i is not closed: first and last vertex differ by more
\* than the duplicate epsilon.
RingOpen(i) ==
    /\ drawSource[i].kind = "Polygon"
    /\ LET c == Turf(i)
       IN  \/ Abs(c[1][1] - c[Len(c)][1]) > CoordEpsilon
           \/ Abs(c[1][2] - c[Len(c)][2]) > CoordEpsilon
\* What the per-feature pass finds on line or polygon j by itself.
OwnFindings(j) ==
    CASE drawSource[j].kind = "Polygon" -> PolygonSelfCheck(TurfFeature(drawSource[j]), j)
      [] drawSource[j].kind = "LineString" -> LineSelfCheck(TurfFeature(drawSource[j]), j)
      [] OTHER -> <<>>

C25_NoHighlightWithoutFeatures ==
    Len(drawSource) = 0 => Len(highlightSource) = 0
\* checkTopology has just taken its early return on a collection that was
\* cleared (a range is installed, no interaction is left)
C25_Witness ==
    /\ Checked /\ last.msg = "noFeatures"
    /\ Len(drawSource) = 0 /\ Len(highlightSource) = 0
    /\ rangeExtent # Null /\ drawInteraction = Null

\* C26: at most one Draw interaction is on the map; drawInteraction is set
\* exactly when the interaction it names is on the map, and nothing else is;
\* drawingMode is set exactly when an interaction is on the map.
C26_OneInteraction ==
    /\ Cardinality(mapInteractions) <= 1
    /\ mapInteractions = IF drawInteraction = Null THEN {} ELSE {drawInteraction}
    /\ (drawingMode # NoMode) <=> (mapInteractions # {})
\* a second tool was chosen while the first was installed
C26_Witness ==
    /\ drawInteraction # Null
    /\ mapInteractions = {drawInteraction}
    /\ drawInteraction.id = 2 /\ drawingMode = "Polygon"

\* ------------------------------------------------------- track animation
\* C27: the moveFeature listener is registered exactly when animating is TRUE
\* (and once), geoMarker has no geometry exactly when animating is TRUE, and
\* every click of the button flips animating.
C27_ListenerIffAnimating ==
    [][/\ ("moveFeature" \in track'.postrender) <=> track'.animating
       /\ Cardinality(track'.postrender) <= 1
       /\ (track'.geoMarker = "null") <=> track'.animating
       /\ (\E now \in Times : startButtonClick(now))
             => track'.animating = ~track.animating]_vars
\* stopped again after frames have moved the marker
C27_Witness ==
    /\ ~track.animating /\ track.postrender = {}
    /\ track.geoMarker = "position" /\ track.distance > 0

\* C28 (as claimed): after every frame distance is within [0, 2) and the
\* fraction handed to getCoordinateAt within [0, 1].
C28_DistanceWithinRoute ==
    /\ 0 <= track.distance /\ track.distance < 2 * RouteUnit
    /\ 0 <= RouteFraction(track.distance) /\ RouteFraction(track.distance) <= RouteUnit

\* ---------------------------------------------------------- base maps
Count(layers, elem) == Cardinality({k \in 1..Len(layers) : layers[k] = elem})
Position(layers, elem) == CHOOSE k \in 1..Len(layers) : layers[k] = elem
ShownBase(layers) == IF Has(layers, "osmLayer") THEN "map-osm" ELSE "map-tianditu"

C30_FlashEnds ==
    flash.frameTime # Undefined =>
        \A l \in flash.listeners : flash.frameTime - l.start < duration

====
